---- MODULE Spec2Model ----
(***************************************************************************)
(* A model of upload_to_imgur.py: the configuration checks of the script   *)
(* entry point, the pin authorization flow, the scan of the lnxpcs tree    *)
(* and the reconciliation loop that creates albums and uploads images.     *)
(*                                                                         *)
(* Strings are sequences of tokens ("lnxpcs", "/", "foo", "a", ".png"),    *)
(* so that joining, suffix tests and substring replacement are computed    *)
(* and not assumed.  A file-system path is a sequence of entry names, each *)
(* entry name being a string.                                              *)
(***************************************************************************)
EXTENDS Integers, Sequences, FiniteSets, TLC

\* ------------------------------------------------------------------ bounds
\* Directory levels below the lnxpcs directory in a tree.
MaxDepth == 1
\* Files in a tree find_all_images is applied to on its own (SpecScan).
MaxFiles == 2
\* Files in the tree, and albums in the account, of a run started with any
\* configuration (Spec).
MaxEntryFiles == 1
MaxEntryAlbums == 1
\* Files in the tree, and albums in the account before the first run, of
\* the runs started with a complete configuration (SpecRun).
MaxRunFiles == 3
MaxAlbums == 2

\* --------------------------------------------------------------- constants
REPO_DIR == <<"lnxpcs">>
CLIENT_SECTION == "client"
TOKENS_SECTION == "tokens"
ROOT_URL == <<"https://github.com/jstpcs/">>

\* The string str.replace(REPO_DIR, ...) puts in place of REPO_DIR.
TREE_MASTER == <<"lnxpcs", "/", "tree", "/", "master">>
PNG == ".png"
SEP == "/"

\* ----------------------------------------------------------------- strings
\* str.endswith for a one-token suffix.
endswith(s, suffix) == Len(s) > 0 /\ s[Len(s)] = suffix

\* str.replace(old, new) for a one-token old: every occurrence is replaced.
RECURSIVE replace(_, _, _)
replace(s, old, new) ==
    IF s = <<>> THEN <<>>
    ELSE (IF Head(s) = old THEN new ELSE <<Head(s)>>) \o replace(Tail(s), old, new)

\* os.path.join(a, b) for a relative b.
join(a, b) == IF a = <<>> THEN b ELSE a \o <<SEP>> \o b

\* The string of a relative path given as a sequence of entry names.
RECURSIVE joinAll(_)
joinAll(names) ==
    IF names = <<>> THEN <<>>
    ELSE IF Len(names) = 1 THEN names[1]
    ELSE join(joinAll(SubSeq(names, 1, Len(names) - 1)), names[Len(names)])

\* os.path.relpath(path, start) for a path at or below start.
relpath(path, start) ==
    IF path = start THEN <<".">>
    ELSE joinAll(SubSeq(path, Len(start) + 1, Len(path)))

\* os.path.basename of a path without a trailing separator.
basename(path) == IF path = <<>> THEN <<>> ELSE path[Len(path)]

\* os.path.realpath(os.path.join(path, "..")) in a tree without symlinks.
parent(path) == IF path = <<>> THEN <<>> ELSE SubSeq(path, 1, Len(path) - 1)

\* ------------------------------------------------------------- file system
HOME == << <<"home">> >>
FileNames == { <<"a", PNG>>, <<"b", PNG>>, <<"c", ".txt">> }
ScanSubNames == { <<"foo">>, <<"lnxpcs">> }
RunSubNames == { <<"foo">> }

\* The order in which a directory listing returns its entries.
NameList == << <<"a", PNG>>, <<"b", PNG>>, <<"c", ".txt">>, <<"foo">>, <<"lnxpcs">> >>
Rank(n) == CHOOSE i \in 1..Len(NameList) : NameList[i] = n
Before(order, m, n) == IF order = "asc" THEN Rank(m) < Rank(n) ELSE Rank(m) > Rank(n)

RECURSIVE listing(_, _)
listing(order, S) ==
    IF S = {} THEN <<>>
    ELSE LET first == CHOOSE n \in S : \A m \in S \ {n} : Before(order, n, m)
         IN  <<first>> \o listing(order, S \ {first})

\* Paths of at most depth entries drawn from names.
RECURSIVE Below(_, _)
Below(names, depth) ==
    IF depth = 0 THEN { <<>> }
    ELSE LET shorter == Below(names, depth - 1)
         IN  shorter \cup { Append(p, n) : p \in shorter, n \in names }

\* The subsets of S of at most n elements.
RECURSIVE UpTo(_, _)
UpTo(S, n) ==
    IF n = 0 THEN { {} }
    ELSE LET smaller == UpTo(S, n - 1)
         IN  smaller \cup { G \cup {x} : G \in smaller, x \in S }

RepoPath == HOME \o <<REPO_DIR>>

\* A tree holds HOME, possibly the repository directory and directories
\* below it; every directory of a tree has its parent in the tree; the
\* directories below HOME hold any of FileNames, HOME any of homeNames.
Trees(names, depth, maxFiles, homeNames) ==
    LET all == { RepoPath \o p : p \in Below(names, depth) }
        closed(D) == \A d \in D : d = RepoPath \/ parent(d) \in D
        slots(D) == (D \X FileNames) \cup ({HOME} \X homeNames)
    IN  UNION { { [dirs |-> D \cup {HOME},
                   files |-> F,
                   order |-> o] :
                  F \in UpTo(slots(D), maxFiles),
                  o \in {"asc", "desc"} } :
                D \in { E \in SUBSET all : closed(E) } }

isdir(fs, path) == path \in fs.dirs
filesOf(fs, d) == { s[2] : s \in { t \in fs.files : t[1] = d } }
subdirsOf(fs, d) == { basename(e) : e \in { x \in fs.dirs : x # <<>> /\ parent(x) = d /\ x # d } }

\* os.walk(top), top-down: each directory with its listing of plain files.
RECURSIVE walk(_, _), walkEach(_, _, _)
walk(fs, top) ==
    IF ~isdir(fs, top) THEN <<>>
    ELSE << [root |-> top, files |-> listing(fs.order, filesOf(fs, top))] >>
         \o walkEach(fs, top, listing(fs.order, subdirsOf(fs, top)))
walkEach(fs, top, names) ==
    IF names = <<>> THEN <<>>
    ELSE walk(fs, Append(top, Head(names))) \o walkEach(fs, top, Tail(names))

\* Mutant of pngsOf: the extension is not tested.
pngsOf_any_file(files) == files

\* find_all_images(root_dir): album titles and the files they should include.
pngsOf(files) == LET isPng(f) == endswith(f, PNG) IN SelectSeq(files, isPng)
RECURSIVE groupsOf(_, _)
groupsOf(walked, root_dir) ==
    IF walked = <<>> THEN <<>>
    ELSE LET e == Head(walked)
             pngs == pngsOf(e.files)
         IN  (IF pngs # <<>>
              THEN << [title |-> relpath(e.root, root_dir), pngs |-> pngs] >>
              ELSE <<>>)
             \o groupsOf(Tail(walked), root_dir)
find_all_images(fs, root_dir) == groupsOf(walk(fs, Append(root_dir, REPO_DIR)), root_dir)

\* ----------------------------------------------------------- configuration
\* A ConfigParser: its sections (DEFAULT always exists) and its options as
\* <<section, key, value>>.
DEFAULT == "DEFAULT"
has_section(c, s) == s \in c.sections
\* key in config[section]: the section's own options and those of DEFAULT.
has_option(c, s, k) == \E o \in c.opts : o[2] = k /\ o[1] \in {s, DEFAULT}
get(c, s, k) ==
    IF \E o \in c.opts : o[1] = s /\ o[2] = k
    THEN (CHOOSE o \in c.opts : o[1] = s /\ o[2] = k)[3]
    ELSE (CHOOSE o \in c.opts : o[1] = DEFAULT /\ o[2] = k)[3]
set(c, s, k, v) ==
    [c EXCEPT !.opts = { o \in c.opts : ~(o[1] = s /\ o[2] = k) } \cup { <<s, k, v>> }]
add_section(c, s) == [c EXCEPT !.sections = c.sections \cup {s}]

EmptyConfig == [sections |-> {}, opts |-> {}]

\* The configurations imgur.ini can hold before the first run; a missing
\* file reads as the empty configuration.
Section(name, keys) == [sections |-> {name}, opts |-> { <<name, k, "ini_" \o k>> : k \in keys }]
Merge(a, b) == [sections |-> a.sections \cup b.sections, opts |-> a.opts \cup b.opts]
ClientChoices == {EmptyConfig} \cup { Section(CLIENT_SECTION, K) : K \in SUBSET {"id", "secret"} }
TokenChoices == {EmptyConfig} \cup { Section(TOKENS_SECTION, K) : K \in SUBSET {"access", "refresh"} }
UserChoices == { EmptyConfig, [sections |-> {}, opts |-> { <<DEFAULT, "user", "ini_user">> }] }
Configs == { Merge(Merge(c, u), t) : c \in ClientChoices, u \in UserChoices, t \in TokenChoices }
CompleteConfig ==
    Merge(Merge(Section(CLIENT_SECTION, {"id", "secret"}),
                [sections |-> {}, opts |-> { <<DEFAULT, "user", "ini_user">> }]),
          Section(TOKENS_SECTION, {"access", "refresh"}))

\* ---------------------------------------------------------- remote service
\* The account: its albums in listing order, each with its images.
Title(names) == joinAll(names)
AlbumTitles == { Title(<<REPO_DIR>>), Title(<<REPO_DIR, <<"foo">> >>) }
RemoteImageTitles ==
    { Title(<<REPO_DIR, <<"a", PNG>> >>), Title(<<REPO_DIR, <<"foo">>, <<"a", PNG>> >>) }
AlbumImageLists == { <<>> } \cup { << [title |-> t] >> : t \in RemoteImageTitles }

deletehashOf(id) == <<"deletehash", id>>
linkOf(id) == <<"https://imgur.com/a/", id>>
NewAlbum(id, title, imgs) ==
    [id |-> id, title |-> title, deletehash |-> deletehashOf(id), link |-> linkOf(id),
     images |-> imgs]

Accounts(maxAlbums) ==
    UNION { { [i \in 1..n |-> NewAlbum(i, t[i], g[i])] :
              t \in [1..n -> AlbumTitles], g \in [1..n -> AlbumImageLists] } :
            n \in 0..maxAlbums }

\* What the service does with a request it accepts.
service_create_album(account, fields) ==
    Append(account, NewAlbum(Len(account) + 1, fields.title, <<>>))
service_upload(account, fields) ==
    [i \in 1..Len(account) |->
        IF account[i].deletehash = fields.album
        THEN [account[i] EXCEPT !.images = Append(@, [title |-> fields.title])]
        ELSE account[i]]

\* ------------------------------------------------------------------- state
VARIABLES
    configFile,   \* imgur.ini on disk
    fs,           \* the file system
    repo_dir,     \* args.repo_dir
    account,      \* the albums the service holds for the user
    run,          \* 1 for the first launch of the script, 2 for the second
    atStart,      \* imgur.ini and the account as they were when the run began
    pc,           \* where the process is
    config,       \* the ConfigParser in memory
    client,       \* the ImgurClient main builds
    images,       \* the result of find_all_images
    all_albums,   \* title -> full album
    album,        \* the album of the group being handled
    gi,           \* index of the group being handled
    pi,           \* index of the png being handled
    calls,        \* the requests made to the service during the run, in order
    output,       \* the diagnostics printed during the run
    raised        \* the exception that ended the run, if any

vars == <<configFile, fs, repo_dir, account, run, atStart, pc, config, client,
          images, all_albums, album, gi, pi, calls, output, raised>>

env == <<fs, repo_dir>>

NoClient == [id |-> "", secret |-> "", access |-> "", refresh |-> ""]
NoAlbum == NewAlbum(0, <<>>, <<>>)
EmptyMap == [t \in {} |-> NoAlbum]

\* A request to the service and how it ended.
Outcomes == {"ok", "rate_limit", "error"}
Failures == Outcomes \ {"ok"}
NoFields == [title |-> <<>>, privacy |-> "", description |-> <<>>, album |-> <<>>,
             path |-> <<>>, id |-> 0]
Call(at, op, outcome, fields) ==
    [at |-> at, op |-> op, outcome |-> outcome, title |-> fields.title,
     privacy |-> fields.privacy, description |-> fields.description,
     album |-> fields.album, path |-> fields.path, id |-> fields.id]

RepoArgs == { RepoPath, HOME \o << <<"other">> >> }
\* The trees of the runs: listings in ascending order, no file in HOME.
RunTrees(maxFiles) == { t \in Trees(RunSubNames, MaxDepth, maxFiles, {}) : t.order = "asc" }

Fresh ==
    /\ run = 1
    /\ atStart = [config |-> configFile, account |-> account]
    /\ pc = "start"
    /\ config = EmptyConfig
    /\ client = NoClient
    /\ images = <<>>
    /\ all_albums = EmptyMap
    /\ album = NoAlbum
    /\ gi = 0
    /\ pi = 0
    /\ calls = <<>>
    /\ output = <<>>
    /\ raised = "none"

\* Any configuration, a small tree and a small account.
Init ==
    /\ configFile \in Configs
    /\ fs \in RunTrees(MaxEntryFiles)
    /\ repo_dir \in RepoArgs
    /\ account \in Accounts(MaxEntryAlbums)
    /\ Fresh

\* A complete configuration, larger trees and accounts.
InitRun ==
    /\ configFile = CompleteConfig
    /\ fs \in RunTrees(MaxRunFiles)
    /\ repo_dir = RepoPath
    /\ account \in Accounts(MaxAlbums)
    /\ Fresh

\* The trees find_all_images is applied to.
InitScan ==
    /\ configFile = CompleteConfig
    /\ fs \in Trees(ScanSubNames, MaxDepth, MaxFiles, FileNames)
    /\ repo_dir = RepoPath
    /\ account = <<>>
    /\ Fresh

\* ------------------------------------------------------------- entry point
\* The configuration checks of the script: the diagnostic, or "" when the
\* client section, its id and secret, and the user are all there.
config_problem(c) ==
    IF ~has_section(c, CLIENT_SECTION)
    THEN "You need a client configuration to access imgur."
    ELSE IF ~has_option(c, CLIENT_SECTION, "id") \/ ~has_option(c, CLIENT_SECTION, "secret")
    THEN "Client config incomplete!"
    ELSE IF ~has_option(c, DEFAULT, "user")
    THEN "Please add an imgur user to the default section of the configuration"
    ELSE ""

\* Mutant of tokens_present: the refresh token alone is asked for.
tokens_present_refresh_only(c) ==
    has_section(c, TOKENS_SECTION) /\ has_option(c, TOKENS_SECTION, "refresh")

\* The test that sends the script to main without asking for a pin.
tokens_present(c) ==
    /\ has_section(c, TOKENS_SECTION)
    /\ has_option(c, TOKENS_SECTION, "refresh")
    /\ has_option(c, TOKENS_SECTION, "access")

\* The script starts: it reads imgur.ini and checks it.
Launch ==
    /\ pc = "start"
    /\ LET c == configFile
           problem == config_problem(c)
       IN  IF problem # ""
           THEN /\ config' = c
                /\ output' = Append(output, problem)
                /\ pc' = "exit1"
           ELSE IF tokens_present(c)
           THEN /\ config' = c
                /\ output' = output
                /\ pc' = "main"
           ELSE /\ config' = IF has_section(c, TOKENS_SECTION) THEN c
                                                                ELSE add_section(c, TOKENS_SECTION)
                /\ output' = output
                /\ pc' = "request_new_token"
    /\ UNCHANGED <<configFile, env, account, run, atStart, client, images, all_albums,
                   album, gi, pi, calls, raised>>

\* What client.authorize returns for the pin.
Credentials == [access_token |-> "new_access", refresh_token |-> "new_refresh"]

\* The configuration request_new_token leaves in memory and writes to disk.
with_credentials(c, credentials) ==
    set(set(c, TOKENS_SECTION, "access", credentials.access_token),
        TOKENS_SECTION, "refresh", credentials.refresh_token)

\* request_new_token: the pin is exchanged for tokens, which are written to
\* imgur.ini; a refused exchange ends the process.
request_new_token ==
    /\ pc = "request_new_token"
    /\ \E outcome \in Outcomes :
          /\ calls' = Append(calls, Call("auth", "authorize", outcome, NoFields))
          /\ IF outcome = "ok"
             THEN /\ config' = with_credentials(config, Credentials)
                  /\ configFile' = config'
                  /\ output' = Append(output, "Updated config for future use")
                  /\ pc' = "main"
                  /\ raised' = raised
             ELSE /\ pc' = "raised"
                  /\ raised' = outcome
                  /\ UNCHANGED <<config, configFile, output>>
    /\ UNCHANGED <<env, account, run, atStart, client, images, all_albums, album, gi, pi>>

\* -------------------------------------------------------------------- main
\* The check of the path given on the command line: the diagnostic, or "".
path_problem(tree, path) ==
    IF basename(path) # REPO_DIR
    THEN "Please provide a path to a lnxpcs directory."
    ELSE IF ~isdir(tree, path)
    THEN "Please provide a path to an EXISTING lnxpcs directory."
    ELSE ""

\* The dict comprehension over the account listing: a later album replaces
\* an earlier one of the same title.
put(m, k, v) == [x \in DOMAIN m \cup {k} |-> IF x = k THEN v ELSE m[x]]
\* Mutant of index_albums: the albums are keyed by link, not by title.
RECURSIVE index_albums_by_link(_)
index_albums_by_link(fetched) ==
    IF fetched = <<>> THEN EmptyMap
    ELSE LET last == fetched[Len(fetched)]
         IN  put(index_albums_by_link(SubSeq(fetched, 1, Len(fetched) - 1)), last.link, last)

RECURSIVE index_albums(_)
index_albums(fetched) ==
    IF fetched = <<>> THEN EmptyMap
    ELSE LET last == fetched[Len(fetched)]
         IN  put(index_albums(SubSeq(fetched, 1, Len(fetched) - 1)), last.title, last)

\* The requests of the listing when the failAt-th of them fails (0: none).
listing_calls(listed, failAt, exc) ==
    LET n == IF failAt = 0 THEN Len(listed) + 1 ELSE failAt
        outcomeOf(k) == IF k = failAt THEN exc ELSE "ok"
    IN  [k \in 1..n |->
            IF k = 1
            THEN Call("listing", "get_account_albums", outcomeOf(k), NoFields)
            ELSE Call("listing", "get_album", outcomeOf(k),
                      [NoFields EXCEPT !.id = listed[k - 1].id])]

\* The options config.get must find for main to build its client, and the
\* client it builds from them.
client_options(c) ==
    /\ has_option(c, CLIENT_SECTION, "id") /\ has_option(c, CLIENT_SECTION, "secret")
    /\ has_option(c, TOKENS_SECTION, "access") /\ has_option(c, TOKENS_SECTION, "refresh")
new_client(c) ==
    [id |-> get(c, CLIENT_SECTION, "id"), secret |-> get(c, CLIENT_SECTION, "secret"),
     access |-> get(c, TOKENS_SECTION, "access"), refresh |-> get(c, TOKENS_SECTION, "refresh")]

\* main up to the loop: the client is built, the path is checked, the tree
\* is scanned and the account's albums are listed and fetched.
main ==
    /\ pc = "main"
    /\ LET problem == path_problem(fs, repo_dir)
           path_to_repo_parent == parent(repo_dir)
           found == find_all_images(fs, path_to_repo_parent)
       IN  IF ~client_options(config)
           THEN /\ pc' = "raised"
                /\ raised' = "NoOptionError"
                /\ UNCHANGED <<client, images, all_albums, calls, output, gi, pi>>
           ELSE IF problem # ""
           THEN /\ client' = new_client(config)
                /\ output' = Append(output, problem)
                /\ pc' = "exit1"
                /\ UNCHANGED <<images, all_albums, calls, raised, gi, pi>>
           ELSE /\ client' = new_client(config)
                /\ \E failAt \in 0..(Len(account) + 1), exc \in Failures :
                  /\ images' = found
                  /\ calls' = calls \o listing_calls(account, failAt, exc)
                  /\ output' = output
                  /\ IF failAt # 0
                     THEN /\ pc' = "raised"
                          /\ raised' = exc
                          /\ UNCHANGED <<all_albums, gi, pi>>
                     ELSE /\ all_albums' = index_albums(account)
                          /\ raised' = raised
                          /\ IF found = <<>>
                             THEN pc' = "done" /\ UNCHANGED <<gi, pi>>
                             ELSE pc' = "album" /\ gi' = 1 /\ pi' = 0
    /\ UNCHANGED <<configFile, env, account, run, atStart, config, album>>

\* -------------------------------------------------------------------- loop
\* Mutant of album_git_url: lnxpcs is not replaced.
album_git_url_unreplaced(album_imgur_title) == ROOT_URL \o album_imgur_title

album_git_url(album_imgur_title) ==
    ROOT_URL \o replace(album_imgur_title, REPO_DIR[1], TREE_MASTER)
image_git_url(git_url, png) == git_url \o <<SEP>> \o png
image_rel_path(album_imgur_title, png) == join(album_imgur_title, png)
image_file_path(path_to_repo_parent, album_imgur_title, png) ==
    join(join(<<SEP>> \o joinAll(path_to_repo_parent), album_imgur_title), png)

\* The fields get_album gives create_album.
create_fields(title, album_url) ==
    [NoFields EXCEPT !.title = title,
                     !.privacy = "hidden",
                     !.description = <<"Album of images from ">> \o album_url]

\* Mutant of upload_fields: the image is titled with the absolute path.
upload_fields_absolute_title(file_path, rel_path, git_url, target) ==
    [NoFields EXCEPT !.path = file_path,
                     !.title = file_path,
                     !.description = <<"A mirror of ">> \o git_url,
                     !.album = target.deletehash]

\* The fields main gives upload_from_path.
upload_fields(file_path, rel_path, git_url, target) ==
    [NoFields EXCEPT !.path = file_path,
                     !.title = rel_path,
                     !.description = <<"A mirror of ">> \o git_url,
                     !.album = target.deletehash]

\* Mutant of known_album: the title is looked up among the albums, not
\* among their titles, and is never found.
known_album_among_values(albums, title) == title \in { albums[t] : t \in {} }

\* The test of get_album: the title has an album in the mapping.
known_album(albums, title) == title \in DOMAIN albums

\* Mutant of get_album_image: no image is ever found.
get_album_image_none(of_album, file_path) == <<>>

\* get_album_image: the first image of the album with that title, as a
\* sequence of at most one image (empty for None).
get_album_image(of_album, file_path) ==
    LET hasTitle(image) == image.title = file_path
        matching == SelectSeq(of_album.images, hasTitle)
    IN  SubSeq(matching, 1, IF matching = <<>> THEN 0 ELSE 1)

\* Mutant of except_clause: nothing is printed.
except_clause_silent(exc, printed) == printed

\* The except clause around the loop: what is printed before the exception
\* is raised again.
except_clause(exc, printed) ==
    IF exc = "rate_limit" THEN Append(printed, "Passed limit") ELSE printed

\* An exception leaves the loop and ends the process.
Abort(exc) ==
    /\ pc' = "raised"
    /\ raised' = exc
    /\ output' = except_clause(exc, output)

\* The loop's step for a group: get_album finds or creates its album.
HandleAlbum ==
    /\ pc = "album"
    /\ LET title == images[gi].title
           url == album_git_url(title)
       IN  IF known_album(all_albums, title)
           THEN /\ album' = all_albums[title]
                /\ pc' = "image"
                /\ pi' = 1
                /\ UNCHANGED <<account, all_albums, calls, output, raised>>
           ELSE \E created \in Outcomes, fetched \in Outcomes :
                  LET fields == create_fields(title, url)
                      createCall == Call("loop", "create_album", created, fields)
                      grown == service_create_album(account, fields)
                      new == grown[Len(grown)]
                      fetchCall == Call("loop", "get_album", fetched,
                                        [NoFields EXCEPT !.id = new.id])
                  IN  IF created # "ok"
                      THEN /\ calls' = Append(calls, createCall)
                           /\ Abort(created)
                           /\ UNCHANGED <<account, all_albums, album, pi>>
                      ELSE IF fetched # "ok"
                      THEN /\ calls' = calls \o <<createCall, fetchCall>>
                           /\ account' = grown
                           /\ Abort(fetched)
                           /\ UNCHANGED <<all_albums, album, pi>>
                      ELSE /\ calls' = calls \o <<createCall, fetchCall>>
                           /\ account' = grown
                           /\ all_albums' = put(all_albums, title, new)
                           /\ album' = new
                           /\ pc' = "image"
                           /\ pi' = 1
                           /\ UNCHANGED <<output, raised>>
    /\ UNCHANGED <<configFile, env, run, atStart, config, client, images, gi>>

\* The loop's step for a png of the group: it is uploaded unless the album
\* lists an image of its title.
HandleImage ==
    /\ pc = "image"
    /\ LET title == images[gi].title
           png == images[gi].pngs[pi]
           url == album_git_url(title)
           rel_path == image_rel_path(title, png)
           file_path == image_file_path(parent(repo_dir), title, png)
           fields == upload_fields(file_path, rel_path, image_git_url(url, png), album)
           Advance ==
               IF pi < Len(images[gi].pngs)
               THEN pc' = "image" /\ pi' = pi + 1 /\ gi' = gi
               ELSE IF gi < Len(images)
               THEN pc' = "album" /\ pi' = 0 /\ gi' = gi + 1
               ELSE pc' = "done" /\ pi' = pi /\ gi' = gi
       IN  IF get_album_image(album, rel_path) # <<>>
           THEN /\ Advance
                /\ UNCHANGED <<account, calls, output, raised>>
           ELSE \E uploaded \in Outcomes :
                  /\ calls' = Append(calls, Call("loop", "upload_from_path", uploaded, fields))
                  /\ IF uploaded # "ok"
                     THEN /\ Abort(uploaded)
                          /\ UNCHANGED <<account, gi, pi>>
                     ELSE /\ account' = service_upload(account, fields)
                          /\ Advance
                          /\ UNCHANGED <<output, raised>>
    /\ UNCHANGED <<configFile, env, run, atStart, config, client, images, all_albums, album>>

\* The script is launched again after a run that came to its end.
Rerun ==
    /\ pc = "done"
    /\ run = 1
    /\ run' = 2
    /\ atStart' = [config |-> configFile, account |-> account]
    /\ pc' = "start"
    /\ config' = EmptyConfig
    /\ client' = NoClient
    /\ images' = <<>>
    /\ all_albums' = EmptyMap
    /\ album' = NoAlbum
    /\ gi' = 0
    /\ pi' = 0
    /\ calls' = <<>>
    /\ output' = <<>>
    /\ raised' = "none"
    /\ UNCHANGED <<configFile, env, account>>

\* find_all_images applied to the tree, on its own.
Scan ==
    /\ pc = "start"
    /\ images' = find_all_images(fs, parent(repo_dir))
    /\ pc' = "scanned"
    /\ UNCHANGED <<configFile, env, account, run, atStart, config, client, all_albums,
                   album, gi, pi, calls, output, raised>>

\* ---------------------------------------------------------- specifications
Next == Launch \/ request_new_token \/ main \/ HandleAlbum \/ HandleImage
Spec == Init /\ [][Next]_vars

NextRun == Launch \/ main \/ HandleAlbum \/ HandleImage \/ Rerun
SpecRun == InitRun /\ [][NextRun]_vars

NextScan == Scan
SpecScan == InitScan /\ [][NextScan]_vars

\* ------------------------------------------------------------------ claims
Indices(op) == { k \in 1..Len(calls) : calls[k].op = op }
Reconciling == { k \in 1..Len(calls) : calls[k].at \in {"listing", "loop"} }
TitlesOf(albums) == { albums[i].title : i \in 1..Len(albums) }
ImageTitles(a) == { a.images[i].title : i \in 1..Len(a.images) }
\* The tokens section of imgur.ini holds the key.
TokenKey(c, k) == TOKENS_SECTION \in c.sections /\ \E o \in c.opts : o[1] = TOKENS_SECTION /\ o[2] = k
ConfigPasses(c) ==
    /\ CLIENT_SECTION \in c.sections
    /\ \A k \in {"id", "secret"} : \E o \in c.opts : o[1] = CLIENT_SECTION /\ o[2] = k
    /\ \E o \in c.opts : o[1] = DEFAULT /\ o[2] = "user"
PathRefused == repo_dir[Len(repo_dir)] # <<"lnxpcs">> \/ repo_dir \notin fs.dirs

\* C1: whenever a configuration passes the key checks and the path's last
\* segment is not lnxpcs or the path is no existing directory, the process
\* has exited with status 1 without any request to the service before it.
C1_NoRequestBeforePathExit ==
    (ConfigPasses(atStart.config) /\ PathRefused /\ pc = "exit1") => calls = <<>>

\* C2: with a refresh token and no access key in the tokens section, the
\* script does not run the pin authorization flow and goes on to main with
\* that refresh token.
C2_RefreshTokenSuffices ==
    (/\ ConfigPasses(atStart.config)
     /\ TokenKey(atStart.config, "refresh")
     /\ ~TokenKey(atStart.config, "access")
     /\ pc # "start")
    => /\ pc # "request_new_token"
       /\ Indices("authorize") = {}
       /\ client # NoClient => client.refresh = "ini_refresh"

\* The groups the scan returned and their files, by index.
Groups == 1..Len(images)
RelTitle(g, k) == images[g].title \o <<"/">> \o images[g].pngs[k]
Files == UNION { { <<g, k>> : k \in 1..Len(images[g].pngs) } : g \in Groups }
\* The album the service lists last under a title: the one the run resolves
\* the title to, whether it was there at startup or created by the run.
HasAlbum(title) == \E i \in 1..Len(account) : account[i].title = title
LastOf(title) ==
    account[CHOOSE i \in 1..Len(account) :
                /\ account[i].title = title
                /\ \A j \in 1..Len(account) : account[j].title = title => j <= i]
AtStartup(title) == title \in TitlesOf(atStart.account)
\* The groups the loop has resolved an album for, and the files it has
\* dealt with, whether or not the run goes on.
Resolved(g) ==
    \/ pc = "done"
    \/ pc \in {"album", "image", "raised"} /\ g < gi
    \/ pc \in {"image", "raised"} /\ g = gi /\ pi >= 1
Passed(f) ==
    \/ pc = "done"
    \/ pc \in {"album", "image", "raised"} /\ f[1] < gi
    \/ pc \in {"image", "raised"} /\ f[1] = gi /\ f[2] < pi

\* C3: a group whose title is the title of an album listed at startup gets
\* one of the albums listed under that title, also when several share the
\* title, and no create_album request is made for that title.
C3_ExistingAlbumReused ==
    /\ \A k \in Indices("create_album") : ~AtStartup(calls[k].title)
    /\ (pc = "image" /\ AtStartup(images[gi].title))
         => /\ album.title = images[gi].title
            /\ \E i \in 1..Len(atStart.account) : atStart.account[i] = album
C3_Witness ==
    /\ pc = "done"
    /\ \E g \in Groups :
          Cardinality({ i \in 1..Len(atStart.account) :
                          atStart.account[i].title = images[g].title }) >= 2
    /\ Indices("create_album") # {}

\* The URL of a title that begins with lnxpcs and holds it nowhere else.
UrlOf(title) ==
    <<"https://github.com/jstpcs/", "lnxpcs", "/", "tree", "/", "master">>
    \o SubSeq(title, 2, Len(title))
Contains(s, part) ==
    \E k \in 1..(Len(s) - Len(part) + 1) : SubSeq(s, k, k + Len(part) - 1) = part

\* C4: for a group whose title is no title of the startup listing, at most
\* one create_album request is made in a run, it asks for a hidden album
\* with the group's title and a description containing the URL of the title,
\* and it is followed by the fetch of the album it created; the album then
\* stands under the title in the mapping; for every such group the loop has
\* resolved, in a run that ends or in one an exception cuts short later,
\* exactly one such request has been made and has succeeded.
C4_CreatedOnce ==
    /\ \A k \in Indices("create_album") :
          /\ calls[k].privacy = "hidden"
          /\ Contains(calls[k].description, UrlOf(calls[k].title))
          /\ \E g \in Groups : images[g].title = calls[k].title
          /\ \A j \in Indices("create_album") : calls[j].title = calls[k].title => j = k
          /\ calls[k].outcome = "ok" =>
                /\ k < Len(calls)
                /\ calls[k + 1].op = "get_album"
                /\ calls[k + 1].id = LastOf(calls[k].title).id
                /\ calls[k + 1].outcome = "ok" =>
                      /\ calls[k].title \in DOMAIN all_albums
                      /\ all_albums[calls[k].title].id = calls[k + 1].id
                      /\ all_albums[calls[k].title].title = calls[k].title
    /\ \A g \in Groups :
          (Resolved(g) /\ ~AtStartup(images[g].title))
          => \E k \in Indices("create_album") :
                calls[k].title = images[g].title /\ calls[k].outcome = "ok"
C4_Witness ==
    /\ pc = "done"
    /\ Len(images) = 2
    /\ Cardinality(Indices("create_album")) = 1
    /\ atStart.account # <<>>

\* The images a title's album held when the run fetched it: those of the
\* last album listed under the title at startup, none for an album the run
\* creates.
StartAlbums(title) == { i \in 1..Len(atStart.account) : atStart.account[i].title = title }
LastAtStart(title) ==
    atStart.account[CHOOSE i \in StartAlbums(title) : \A j \in StartAlbums(title) : j <= i]
FetchedTitles(title) ==
    IF StartAlbums(title) = {} THEN {} ELSE ImageTitles(LastAtStart(title))
Uploads(title) == { k \in Indices("upload_from_path") : calls[k].title = title }
Count(a, title) == Cardinality({ i \in 1..Len(a.images) : a.images[i].title = title })

\* C5: for a file whose relative path is the title of an image in the list
\* fetched for its group's album, no upload request is made, and the album
\* holds as many images of that title as it did at startup; every album of
\* the startup listing keeps the images it had; a title listed only in
\* another album does not count: the file is uploaded.
C5_ListedImageNotUploaded ==
    /\ \A f \in Files :
          RelTitle(f[1], f[2]) \in FetchedTitles(images[f[1]].title)
          => /\ Uploads(RelTitle(f[1], f[2])) = {}
             /\ Count(LastOf(images[f[1]].title), RelTitle(f[1], f[2]))
                  = Count(LastAtStart(images[f[1]].title), RelTitle(f[1], f[2]))
    /\ \A i \in 1..Len(atStart.account) :
          /\ i <= Len(account)
          /\ SubSeq(account[i].images, 1, Len(atStart.account[i].images))
               = atStart.account[i].images
    /\ \A f \in Files :
          (/\ Passed(f)
           /\ RelTitle(f[1], f[2]) \notin FetchedTitles(images[f[1]].title)
           /\ \E i \in 1..Len(atStart.account) :
                 RelTitle(f[1], f[2]) \in ImageTitles(atStart.account[i]))
          => Uploads(RelTitle(f[1], f[2])) # {}
C5_Witness ==
    /\ pc = "done"
    /\ \E f \in Files : RelTitle(f[1], f[2]) \in FetchedTitles(images[f[1]].title)
    /\ \E f \in Files, i \in 1..Len(atStart.account) :
          /\ RelTitle(f[1], f[2]) \in ImageTitles(atStart.account[i])
          /\ Uploads(RelTitle(f[1], f[2])) # {}

\* C6: for a file whose relative path is no title of the list fetched for
\* its group's album, at most one upload request is made in a run, with the
\* relative path as title, the file's absolute path, and the deletion handle
\* of the album resolved for the file's directory; for every such file the
\* loop has dealt with, in a run that ends or in one an exception cuts
\* short later, exactly one has been made and has succeeded; every upload
\* request of a run is for such a file.
C6_MissingImageUploadedOnce ==
    /\ \A k \in Indices("upload_from_path") :
          /\ \E f \in Files :
                /\ calls[k].title = RelTitle(f[1], f[2])
                /\ calls[k].title \notin FetchedTitles(images[f[1]].title)
                /\ HasAlbum(images[f[1]].title)
                /\ calls[k].album = LastOf(images[f[1]].title).deletehash
                /\ calls[k].path = <<"/", "home", "/">> \o calls[k].title
          /\ Uploads(calls[k].title) = {k}
    /\ \A f \in Files :
          (Passed(f) /\ RelTitle(f[1], f[2]) \notin FetchedTitles(images[f[1]].title))
          => \E k \in Uploads(RelTitle(f[1], f[2])) : calls[k].outcome = "ok"
C6_Witness ==
    /\ pc = "done"
    /\ Len(account) >= 2
    /\ \E j, k \in Indices("upload_from_path") : calls[j].album # calls[k].album

\* C8: a rate-limit failure of a request made in the loop is the last
\* request of the run: the process ends with that exception after printing
\* the credit line, and the account holds every album the run created and
\* every image it uploaded before the failure.
C8_RateLimitEndsRun ==
    \A k \in 1..Len(calls) :
       (calls[k].at = "loop" /\ calls[k].outcome = "rate_limit")
       => /\ k = Len(calls)
          /\ pc = "raised"
          /\ raised = "rate_limit"
          /\ output # <<>> /\ output[Len(output)] = "Passed limit"
          /\ \A j \in 1..(k - 1) :
                /\ calls[j].outcome = "ok"
                /\ calls[j].op = "create_album" =>
                      \E i \in (Len(atStart.account) + 1)..Len(account) :
                         account[i].title = calls[j].title
                /\ calls[j].op = "upload_from_path" =>
                      \E i \in 1..Len(account) :
                         /\ account[i].deletehash = calls[j].album
                         /\ calls[j].title \in ImageTitles(account[i])
          /\ \A i \in 1..Len(atStart.account) :
                /\ i <= Len(account)
                /\ SubSeq(account[i].images, 1, Len(atStart.account[i].images))
                     = atStart.account[i].images
C8_Witness ==
    /\ Len(images) = 2
    /\ pc = "raised"
    /\ calls[Len(calls)].at = "loop"
    /\ calls[Len(calls)].outcome = "rate_limit"
    /\ Indices("create_album") # {}
    /\ \E k \in Indices("upload_from_path") : calls[k].outcome = "ok"
    /\ gi = 1

\* C10: in the second run, launched after a first run that came to its end
\* on the same tree, no create_album and no upload request is made, and the
\* account stays as the first run left it.
C10_SecondRunChangesNothing ==
    run = 2 => /\ Indices("create_album") = {}
               /\ Indices("upload_from_path") = {}
               /\ account = atStart.account
C10_Witness ==
    /\ run = 2
    /\ pc = "done"
    /\ Len(images) = 2
    /\ \E i \in 1..Len(account) :
          Title(<<REPO_DIR, <<"b", PNG>> >>) \in ImageTitles(account[i])

BothTokens(c) == TokenKey(c, "access") /\ TokenKey(c, "refresh")

RECURSIVE Slashed(_)
Slashed(p) == IF Len(p) = 1 THEN p[1] ELSE p[1] \o <<"/">> \o Slashed(Tail(p))
Tracked == { d \in fs.dirs : Len(d) >= 2 /\ d[1] = <<"home">> /\ d[2] = <<"lnxpcs">> }
Matching(d) == { f \in FileNames : <<d, f>> \in fs.files /\ f[Len(f)] = ".png" }
GroupsOf(d) == { i \in 1..Len(images) : images[i].title = Slashed(Tail(d)) }

\* C9: find_all_images returns exactly one group for each directory of the
\* tree under root_dir/lnxpcs that holds a file whose name ends with .png,
\* keyed by the directory's path relative to root_dir and listing that
\* directory's own such files, each once; it returns no other group.
C9_OneGroupPerImageDirectory ==
    pc = "scanned" =>
       /\ \A d \in Tracked :
             Matching(d) # {} =>
                /\ Cardinality(GroupsOf(d)) = 1
                /\ \A i \in GroupsOf(d) :
                      /\ { images[i].pngs[k] : k \in 1..Len(images[i].pngs) } = Matching(d)
                      /\ Len(images[i].pngs) = Cardinality(Matching(d))
       /\ \A i \in 1..Len(images) :
             \E d \in Tracked : Matching(d) # {} /\ i \in GroupsOf(d)
C9_Witness ==
    /\ pc = "scanned"
    /\ Len(images) = 1
    /\ <<HOME, <<"a", PNG>> >> \in fs.files
    /\ \E d \in Tracked : Len(d) = 3 /\ Matching(d) # {}
    /\ \E d \in Tracked : Len(d) = 3 /\ Matching(d) = {}

====
